---- MODULE Spec2Model ----
(***************************************************************************)
(* Model of generateVeoVideo (the submit-and-await job client of           *)
(* src/components/VideoGenerator.tsx, lines 352-514), of its caller        *)
(* handleGenerate (lines 47-122) and of the key state of App               *)
(* (src/unnamed/part_000, lines 32-40).  Init is the state in which the    *)
(* component has just been mounted: a key has been selected.               *)
(*                                                                         *)
(* Text is modelled as a sequence of chunks.  A decimal digit is a chunk   *)
(* of its own, so that "404" is the three chunks "4","0","4" and substring *)
(* search over digits is real; so are a square bracket and a space next to *)
(* a digit or bracket; a word or phrase that holds none of these is one    *)
(* atomic chunk.  includes() is substring search over chunks.              *)
(*                                                                         *)
(* One action is the code that runs between two await points.  The clock   *)
(* `now` (Date.now(), ms) advances in the actions that model the awaited   *)
(* timer or network round trip; it is taken to be monotonic.               *)
(***************************************************************************)
EXTENDS Integers, Sequences, FiniteSets, TLC

VARIABLES
    envKey,      \* process.env.API_KEY, owned by the credential provider
    pc,          \* await point of the running call, or idle / done / failed
    prompt,      \* argument prompt
    image,       \* argument image (while the file is read: its data URL)
    apiKey,      \* const apiKey (line 358)
    attempts,    \* let attempts (line 395)
    operation,   \* let operation (line 394)
    startTime,   \* const startTime (line 428)
    now,         \* Date.now()
    result,      \* how the returned promise settled
    caught,      \* catch parameter err (line 403), NoErr outside the catch
    log,         \* history: what the call did, in order
    hasKey,      \* App: const [hasKey, setHasKey]
    authError,   \* App: const [authError, setAuthError]
    state,       \* VideoGenerator: const [state, setState]
    hpc,         \* await point of handleGenerate: none / reading / awaiting / returned
    overlap      \* history: a call was started while another had not settled

vars == <<envKey, pc, prompt, image, apiKey, attempts, operation, startTime,
          now, result, caught, log, hasKey, authError, state, hpc, overlap>>

----------------------------------------------------------------------------
(* Bounds of the model *)

MaxPolls == 3

----------------------------------------------------------------------------
(* Text *)

includes(s, sub) ==
    \E i \in 1..(Len(s) - Len(sub) + 1) : SubSeq(s, i, i + Len(sub) - 1) = sub

DigitChunk(d) ==
    CASE d = 0 -> "0" [] d = 1 -> "1" [] d = 2 -> "2" [] d = 3 -> "3"
      [] d = 4 -> "4" [] d = 5 -> "5" [] d = 6 -> "6" [] d = 7 -> "7"
      [] d = 8 -> "8" [] d = 9 -> "9"

RECURSIVE Digits(_)
Digits(n) == IF n < 10 THEN <<DigitChunk(n)>>
             ELSE Digits(n \div 10) \o <<DigitChunk(n % 10)>>

Truthy(s) == s # <<>>

S404 == <<"4", "0", "4">>
S400 == <<"4", "0", "0">>
SNotFound == <<"NOT_FOUND">>
SInvalidArgument == <<"INVALID_ARGUMENT">>

----------------------------------------------------------------------------
(* JavaScript values *)

\* A value that is a string or undefined.
Undefined == [def |-> FALSE, s |-> <<>>]
Str(s) == [def |-> TRUE, s |-> s]
Falsy(v) == ~v.def \/ v.s = <<>>

\* Values thrown by the remote calls.  shape: an Error instance (no
\* enumerable own property), an Error subclass instance carrying enumerable
\* name and status, a plain object {message}, a plain object
\* {error: {code, message}} ("Nested"), a plain object
\* {error: {code}, message} ("NestedTop"), a string primitive, or an object
\* that holds a reference to itself.  code 0 and message <<>> stand for an
\* absent field.
Thrown(shape, code, message) ==
    [shape |-> shape, code |-> code, message |-> message]

NewError(message) == Thrown("Error", 0, message)
NoErr == Thrown("None", 0, <<>>)

RetryableTexts == { <<"network down">>, <<"5", "0", "3">> }
MarkedTexts ==
    { <<"status:", " ">> \o S404, SNotFound, S400 \o <<" ", "Bad Request">>,
      SInvalidArgument, <<"1">> \o S404 \o <<"0">> }
Texts == RetryableTexts \cup MarkedTexts

ThrownValues ==
    { Thrown(sh, 0, m) : sh \in {"Error", "Object", "String"}, m \in Texts }
    \cup { Thrown("Nested", c, m) : c \in {0, 404, 503},
                                    m \in {<<"network down">>, <<"not found">>, SNotFound} }
    \cup { Thrown("ApiError", c, <<"api error">>) : c \in {404, 400, 503} }
    \cup { Thrown("NestedTop", 404, <<"quota exceeded">>) }
    \cup { Thrown("Circular", 0, <<>>) }

\* JSON.stringify(err): [ok, s]; ok = FALSE when it throws a TypeError.
\* Quotes inside a text would be escaped; no text of the model holds one.
StringifyThrows == <<"Converting circular structure to JSON">>
JSONstringify(err) ==
    CASE err.shape = "Error" -> [ok |-> TRUE, s |-> <<"{", "}">>]
      [] err.shape = "Event" -> [ok |-> TRUE, s |-> <<"{", "\"isTrusted\":", "true", "}">>]
      [] err.shape = "ApiError" ->
           [ok |-> TRUE,
            s |-> <<"{", "\"name\":", "\"", "ApiError", "\"", ",", "\"status\":">>
                  \o Digits(err.code) \o <<"}">>]
      [] err.shape = "Object" ->
           [ok |-> TRUE,
            s |-> <<"{", "\"message\":", "\"">> \o err.message \o <<"\"", "}">>]
      [] err.shape = "Nested" ->
           [ok |-> TRUE,
            s |-> <<"{", "\"error\":", "{">>
                  \o (IF err.code # 0
                      THEN <<"\"code\":">> \o Digits(err.code) \o <<",">>
                      ELSE <<>>)
                  \o <<"\"message\":", "\"">> \o err.message \o <<"\"", "}", "}">>]
      [] err.shape = "NestedTop" ->
           [ok |-> TRUE,
            s |-> <<"{", "\"error\":", "{">>
                  \o (IF err.code # 0
                      THEN <<"\"code\":">> \o Digits(err.code)
                      ELSE <<>>)
                  \o <<"}", ",", "\"message\":", "\"">> \o err.message \o <<"\"", "}">>]
      [] err.shape = "String" ->
           [ok |-> TRUE, s |-> <<"\"">> \o err.message \o <<"\"">>]
      [] err.shape = "Circular" -> [ok |-> FALSE, s |-> <<>>]

\* err.message: the own or inherited message property, <<>> when undefined.
MessageOf(err) ==
    IF err.shape \in {"Error", "ApiError", "Object", "NestedTop"} THEN err.message
    ELSE <<>>

\* err.error is truthy, and err.error.message (<<>> when undefined).
HasErrorField(err) == err.shape \in {"Nested", "NestedTop"}
InnerMessage(err) == IF err.shape = "Nested" THEN err.message ELSE <<>>

InstanceOfError(err) == err.shape \in {"Error", "ApiError"}

----------------------------------------------------------------------------
(* Messages the code itself throws *)

MsgUnknownOccurred == <<"Unknown error occurred">>
MsgKeyMissing == <<"API Key is missing. Please select a valid key.">>
MsgNoInput == <<"Please provide a text prompt or an image to generate a video.">>
MsgConnect ==
    <<"Failed to connect to Gemini API after multiple attempts. Please check your internet connection and try again.">>
MsgOpFallback == <<"Unknown error during video generation operation">>
MsgNoUri == <<"No video URI returned from operation">>
MsgDefault == <<"Veo video generation failed">>
MsgStructure == <<"Unknown error object structure">>

----------------------------------------------------------------------------
(* Inputs and remote values *)

Keys == { Undefined, Str(<<>>), Str(<<"K1">>), Str(<<"K2">>) }
Prompts == { <<>>, <<" ">>, <<"a cat">> }
NoImage == [def |-> FALSE, data |-> <<>>, mimeType |-> <<>>]
Images == { NoImage, [def |-> TRUE, data |-> <<"aGk=">>, mimeType |-> <<"image/png">>] }

\* operation.error: absent, or an object with or without a message.
NoOpError == [present |-> FALSE, message |-> Undefined]
OpErrors == { NoOpError,
              [present |-> TRUE, message |-> Undefined],
              [present |-> TRUE, message |-> Str(<<"quota exceeded">>)] }
Uris == { Undefined, Str(<<"https://video/1?alt=media">>) }

\* The operation object: undefined before the first successful createJob;
\* snap tells apart the snapshots of a pending job: 1 is the one createJob
\* returns, 2 a refreshed one that getJob returns.
NoOperation ==
    [def |-> FALSE, done |-> FALSE, error |-> NoOpError, uri |-> Undefined, snap |-> 0]
PendingOperations ==
    { [def |-> TRUE, done |-> FALSE, error |-> NoOpError, uri |-> Undefined, snap |-> n] :
        n \in {1, 2} }
DoneOperations ==
    { [def |-> TRUE, done |-> TRUE, error |-> e, uri |-> u, snap |-> 0] :
        e \in OpErrors, u \in Uris }
Operations == PendingOperations \cup DoneOperations
CreatedOperations == { op \in Operations : op.snap # 2 }
RefreshedOperations == { op \in Operations : op.snap # 1 }

\* fetch responses: status, body text (<<>> when response.text() rejects) and statusText.
FetchResponses ==
    { [ok |-> TRUE, status |-> 200, text |-> Str(<<"mp4">>), statusText |-> <<"OK">>],
      [ok |-> FALSE, status |-> 404, text |-> Str(<<"no such file">>), statusText |-> <<"Not Found">>],
      [ok |-> FALSE, status |-> 500, text |-> Undefined, statusText |-> <<"Internal Server Error">>] }
FetchTypeError == <<"Failed to fetch">>

\* Durations (ms) of a getJob or fetch round trip and lateness of the poll
\* timer.  A createJob round trip takes CreateLatency and the timers fire on
\* time: no clock is read before line 428, and a late poll timer delays the
\* tick the way a slow getJob before it does.
Latencies == {0, 700}
Jitters == {0}
CreateLatency == {200}

----------------------------------------------------------------------------
(* History *)

Event(e, v) == [e |-> e, v |-> v]
Count(lg, e) == Cardinality({ i \in 1..Len(lg) : lg[i].e = e })
Positions(lg, e) == { i \in 1..Len(lg) : lg[i].e = e }

NoResult == [kind |-> "none", v |-> <<>>]

----------------------------------------------------------------------------
(* Lines 469-513: the catch of generateVeoVideo; gives the message of the   *)
(* Error the returned promise is rejected with.                             *)

Normalize(error) ==
    IF InstanceOfError(error) THEN error.message
    ELSE IF error.shape \in {"Object", "Nested", "NestedTop", "Circular"} THEN
        IF HasErrorField(error) THEN
            IF Truthy(InnerMessage(error)) THEN
                IF error.code # 0
                THEN <<"[">> \o Digits(error.code) \o <<"]", " ">> \o InnerMessage(error)
                ELSE InnerMessage(error)
            ELSE MsgDefault
        ELSE IF Truthy(MessageOf(error)) THEN MessageOf(error)
        ELSE IF JSONstringify(error).ok THEN JSONstringify(error).s
        ELSE MsgStructure
    ELSE error.message

OuterCatch(error) ==
    IF ~JSONstringify(error).ok THEN StringifyThrows
    ELSE Normalize(error)

Rejected(error) == [kind |-> "rejected", v |-> OuterCatch(error)]
Resolved(url) == [kind |-> "resolved", v |-> url]

----------------------------------------------------------------------------
(* Lines 394-426: the retry loop of the initial request *)

maxAttempts == 3
PollIntervalMs == 5000

\* Line 424 with the exponent counted from zero.
BackoffMsFromZero(n) == 1000 * 2^(n - 1)

\* Line 424: 1000 * Math.pow(2, attempts)
BackoffMs(n) == 1000 * 2^n

\* Lines 409-415, for an err that JSON.stringify accepts.
NonRetryable(err) ==
    LET errStr == JSONstringify(err).s IN
        \/ includes(errStr, S404)
        \/ includes(errStr, SNotFound)
        \/ includes(errStr, S400)
        \/ includes(errStr, SInvalidArgument)
        \/ /\ Truthy(MessageOf(err))
           /\ includes(MessageOf(err), S404) \/ includes(MessageOf(err), S400)

\* Lines 404-425 with the exhaustion test of line 419 off by one.
SubmitCatchOffByOne(err, n) ==
    IF ~JSONstringify(err).ok
    THEN [t |-> "throw", error |-> NewError(StringifyThrows), ms |-> 0]
    ELSE IF NonRetryable(err) THEN [t |-> "throw", error |-> err, ms |-> 0]
    ELSE IF n > maxAttempts THEN [t |-> "throw", error |-> NewError(MsgConnect), ms |-> 0]
    ELSE [t |-> "wait", error |-> err, ms |-> BackoffMs(n)]

\* Lines 404-425: what the catch of one failed attempt does, n being the
\* value of attempts after the increment of line 404.
SubmitCatch(err, n) ==
    IF ~JSONstringify(err).ok
    THEN [t |-> "throw", error |-> NewError(StringifyThrows), ms |-> 0]
    ELSE IF NonRetryable(err) THEN [t |-> "throw", error |-> err, ms |-> 0]
    ELSE IF n = maxAttempts THEN [t |-> "throw", error |-> NewError(MsgConnect), ms |-> 0]
    ELSE [t |-> "wait", error |-> err, ms |-> BackoffMs(n)]

\* Line 359 with the test `apiKey === undefined` in place of `!apiKey`.
KeyMissingUndefinedOnly(key) == ~key.def

\* Line 359
KeyMissing(key) == Falsy(key)

\* Lines 384-389 with the prompt test nested under the image branch.
NoInputUnderImage(p, img) == img.def /\ ~Truthy(p)

\* Lines 384-389: neither an image nor a prompt.
NoInput(p, img) == ~img.def /\ ~Truthy(p)

\* Line 434 with the operands of the subtraction swapped.
ElapsedSwapped(t, start) == (start - t) \div 1000

\* Line 434
Elapsed(t, start) == (t - start) \div 1000

\* Line 458 reading process.env.API_KEY again.
DownloadUrlRereadsKey(videoUri) == videoUri.s \o <<"&key=">> \o envKey.s

\* Line 458
DownloadUrl(videoUri) == videoUri.s \o <<"&key=">> \o apiKey.s

\* Lines 446-460 with the URI looked at before operation.error.
ResolutionUriFirst(op) ==
    IF ~Falsy(op.uri)
    THEN [t |-> "fetch", error |-> NewError(<<>>), url |-> DownloadUrl(op.uri)]
    ELSE IF op.error.present
    THEN [t |-> "throw",
          error |-> NewError(IF Falsy(op.error.message) THEN MsgOpFallback
                             ELSE op.error.message.s),
          url |-> <<>>]
    ELSE [t |-> "throw", error |-> NewError(MsgNoUri), url |-> <<>>]

\* Lines 446-460 without the test of line 452.
ResolutionNoUriTest(op) ==
    IF op.error.present
    THEN [t |-> "throw",
          error |-> NewError(IF Falsy(op.error.message) THEN MsgOpFallback
                             ELSE op.error.message.s),
          url |-> <<>>]
    ELSE [t |-> "fetch", error |-> NewError(<<>>), url |-> DownloadUrl(op.uri)]

\* Lines 446-460: what follows the poll loop for a completed operation.
Resolution(op) ==
    IF op.error.present
    THEN [t |-> "throw",
          error |-> NewError(IF Falsy(op.error.message) THEN MsgOpFallback
                             ELSE op.error.message.s),
          url |-> <<>>]
    ELSE IF Falsy(op.uri)
    THEN [t |-> "throw", error |-> NewError(MsgNoUri), url |-> <<>>]
    ELSE [t |-> "fetch", error |-> NewError(<<>>), url |-> DownloadUrl(op.uri)]

\* The promise is rejected: lines 469-513.
Reject(error, lg) ==
    /\ pc' = "failed"
    /\ result' = Rejected(error)
    /\ log' = lg

\* Lines 431-460 from the loop test on, up to the next await: either the
\* 5000 ms timer is set, or the loop is left and the operation resolved.
\* An undefined operation makes the loop test throw a TypeError.
Continue(op, lg) ==
    IF ~op.def
    THEN Reject(NewError(<<"Cannot read properties of undefined (reading 'done')">>), lg)
    ELSE IF ~op.done
    THEN /\ pc' = "sleep"
         /\ result' = result
         /\ log' = Append(lg, Event("sleep", PollIntervalMs))
    ELSE LET r == Resolution(op) IN
         IF r.t = "throw" THEN Reject(r.error, lg)
         ELSE /\ pc' = "fetch"
              /\ result' = result
              /\ log' = Append(lg, Event("fetch", r.url))

\* Line 401: the request goes out.
IssueCreateJob(lg) ==
    /\ pc' = "createJob"
    /\ result' = result
    /\ log' = Append(lg, Event("createJob", attempts' + 1))

----------------------------------------------------------------------------
(* The component: handleGenerate (lines 47-122) and App (lines 32-40) *)

Idle == [status |-> "IDLE", videoUrl |-> Undefined, error |-> Undefined,
         elapsedSeconds |-> 0]
Generating == [status |-> "GENERATING", videoUrl |-> Undefined, error |-> Undefined,
               elapsedSeconds |-> 0]
Completed(url) == [status |-> "COMPLETED", videoUrl |-> Str(url), error |-> Undefined,
                   elapsedSeconds |-> 0]
Failed(errorMessage) == [status |-> "FAILED", videoUrl |-> Undefined,
                         error |-> Str(errorMessage), elapsedSeconds |-> 0]

\* Lines 72-76 without the status of line 74.
onPollKeepsStatus(prev, elapsed) == [prev EXCEPT !.elapsedSeconds = elapsed]

\* Lines 72-76: the progress callback.
onPoll(prev, elapsed) == [prev EXCEPT !.status = "POLLING", !.elapsedSeconds = elapsed]

\* Line 124 without the POLLING operand.
isLoadingGeneratingOnly(st) == st.status = "GENERATING"

\* Line 124
isLoading(st) == st.status \in {"GENERATING", "POLLING"}

\* String.prototype.trim over chunks: blanks are dropped at both ends.
RECURSIVE TrimStart(_)
TrimStart(s) == IF s # <<>> /\ Head(s) = " " THEN TrimStart(Tail(s)) ELSE s
RECURSIVE TrimEnd(_)
TrimEnd(s) ==
    IF s # <<>> /\ s[Len(s)] = " " THEN TrimEnd(SubSeq(s, 1, Len(s) - 1)) ELSE s
trim(s) == TrimEnd(TrimStart(s))

\* Lines 49 and 125: a prompt that is not blank, or a selected file.
hasInput(p, file) == trim(p) # <<>> \/ file.def

\* The selected file, as what FileReader.readAsDataURL gives for it.
NoFile == [def |-> FALSE, dataUrl |-> <<>>, type |-> <<>>]
Files == { NoFile,
           [def |-> TRUE, dataUrl |-> <<"data:image/png;base64", ",", "aGk=">>,
            type |-> <<"image/png">>] }

\* Line 64: base64DataUrl.split(',')[1]
SplitComma1(s) ==
    LET commas == { i \in 1..Len(s) : s[i] = "," }
        first == CHOOSE i \in commas : \A j \in commas : i <= j
        rest == SubSeq(s, first + 1, Len(s))
        ends == { i \in 1..Len(rest) : rest[i] = "," }
    IN IF ends = {} THEN rest
       ELSE SubSeq(rest, 1, (CHOOSE i \in ends : \A j \in ends : i <= j) - 1)

\* Line 43: the value fileToBase64 rejects with.
ReaderError == Thrown("Event", 0, <<>>)

\* Lines 86-98: the text handleGenerate takes from what it caught.
ErrorMessage(err) ==
    IF InstanceOfError(err) THEN err.message
    ELSE IF err.shape = "String" THEN err.message
    ELSE IF JSONstringify(err).ok THEN JSONstringify(err).s
    ELSE MsgUnknownOccurred

\* String.prototype.toLowerCase, chunk by chunk.
LowerChunk(c) ==
    CASE c = "NOT_FOUND" -> "not_found"
      [] c = "INVALID_ARGUMENT" -> "invalid_argument"
      [] c = "Bad Request" -> "bad request"
      [] c = "ApiError" -> "apierror"
      [] c = "Failed to download video:" -> "failed to download video:"
      [] c = "Failed to fetch" -> "failed to fetch"
      [] c = "Converting circular structure to JSON" ->
             "converting circular structure to json"
      [] c = "API Key is missing. Please select a valid key." ->
             "api key is missing. please select a valid key."
      [] c = "Please provide a text prompt or an image to generate a video." ->
             "please provide a text prompt or an image to generate a video."
      [] c = "Failed to connect to Gemini API after multiple attempts. Please check your internet connection and try again." ->
             "failed to connect to gemini api after multiple attempts. please check your internet connection and try again."
      [] c = "Unknown error during video generation operation" ->
             "unknown error during video generation operation"
      [] c = "No video URI returned from operation" ->
             "no video uri returned from operation"
      [] c = "Veo video generation failed" -> "veo video generation failed"
      [] c = "Unknown error object structure" -> "unknown error object structure"
      [] c = "Cannot read properties of undefined (reading 'done')" ->
             "cannot read properties of undefined (reading 'done')"
      [] OTHER -> c
toLowerCase(s) == [i \in 1..Len(s) |-> LowerChunk(s[i])]

\* Lines 103-109
KeyLooksInvalid(lowerCaseMessage) ==
    \/ includes(lowerCaseMessage, <<"requested entity was not found">>)
    \/ includes(lowerCaseMessage, <<"status:", " ">> \o S404)
    \/ includes(lowerCaseMessage, <<"not_found">>)
    \/ includes(lowerCaseMessage, <<"[">> \o S404 \o <<"]">>)
    \/ includes(lowerCaseMessage, <<" ">> \o S404 \o <<" ">>)

ResetReason ==
    <<"The previous API Key was invalid or not associated with a paid project required for Veo. Please select a valid paid key.">>

\* Lines 85-120, with App's handleResetKey (lines 37-40) for onResetKey.
HandleCatch(err) ==
    IF KeyLooksInvalid(toLowerCase(ErrorMessage(err)))
    THEN /\ authError' = Str(IF Truthy(ResetReason) THEN ResetReason
                             ELSE <<"Please select a valid API key.">>)
         /\ hasKey' = FALSE
         /\ state' = state
    ELSE /\ state' = Failed(ErrorMessage(err))
         /\ UNCHANGED <<hasKey, authError>>

----------------------------------------------------------------------------
(* Actions *)

Init ==
    /\ envKey \in Keys
    /\ pc = "idle"
    /\ prompt = <<>>
    /\ image = NoImage
    /\ apiKey = Undefined
    /\ attempts = 0
    /\ operation = NoOperation
    /\ startTime = 0
    /\ now = 0
    /\ result = NoResult
    /\ caught = NoErr
    /\ log = <<>>
    /\ hasKey = TRUE
    /\ authError = Undefined
    /\ state = Idle
    /\ hpc = "none"
    /\ overlap = FALSE

\* The credential provider replaces the credential (at any time).
ChangeKey(k) ==
    /\ UNCHANGED <<hasKey, authError, state, hpc, overlap>>
    /\ k # envKey
    /\ envKey' = k
    /\ UNCHANGED <<pc, prompt, image, apiKey, attempts, operation, startTime,
                   now, result, caught, log>>

InFlight == pc \in {"createJob", "backoff", "sleep", "getJob", "fetch"}

\* Lines 352-401: generateVeoVideo is called and runs up to its first
\* await.  The model follows the latest call: the record of an earlier one
\* is dropped, and the clock is read from the start of the call (the code
\* uses differences of clock readings only).
Invoke(p, img) ==
    /\ prompt' = p
    /\ image' = img
    /\ apiKey' = envKey
    /\ attempts' = 0
    /\ operation' = NoOperation
    /\ caught' = NoErr
    /\ startTime' = 0
    /\ now' = 0
    /\ overlap' = (overlap \/ InFlight)
    /\ UNCHANGED envKey
    /\ LET lg == <<Event("readKey", envKey)>> IN
       IF KeyMissing(envKey) THEN Reject(NewError(MsgKeyMissing), lg)
       ELSE IF NoInput(p, img) THEN Reject(NewError(MsgNoInput), lg)
       ELSE /\ pc' = "createJob"
            /\ result' = NoResult
            /\ log' = Append(lg, Event("createJob", 1))

\* generateVeoVideo called by a caller other than the component.
Call(p, img) ==
    /\ pc = "idle"
    /\ hpc = "none"
    /\ Invoke(p, img)
    /\ UNCHANGED <<hasKey, authError, state, hpc>>

\* The record of the call as it is before any call.
NoCall ==
    /\ pc' = "idle"
    /\ apiKey' = Undefined
    /\ attempts' = 0
    /\ operation' = NoOperation
    /\ startTime' = 0
    /\ now' = 0
    /\ result' = NoResult
    /\ caught' = NoErr
    /\ log' = <<>>

\* Lines 47-77 and the button of lines 193-194 (disabled while isLoading):
\* the Generate button is clicked.  Line 49 returns when there is no input.
\* Without a file the call of line 71 is made in the same step; with one,
\* fileToBase64 is awaited.  (A behaviour has either a call by another
\* caller or clicks, not both.)
handleGenerate(p, file) ==
    /\ hasKey
    /\ ~isLoading(state)
    /\ hpc # "none" \/ pc = "idle"
    /\ UNCHANGED <<hasKey, authError>>
    /\ IF ~hasInput(p, file)
       THEN /\ hpc' = "returned"
            /\ UNCHANGED <<envKey, pc, prompt, image, apiKey, attempts, operation,
                           startTime, now, result, caught, log, state, overlap>>
       ELSE /\ state' = Generating
            /\ IF file.def
               THEN /\ hpc' = "reading"
                    /\ prompt' = p
                    /\ image' = [def |-> TRUE, data |-> file.dataUrl,
                                 mimeType |-> file.type]
                    /\ UNCHANGED <<envKey, overlap>>
                    /\ IF InFlight
                       THEN UNCHANGED <<pc, apiKey, attempts, operation, startTime,
                                        now, result, caught, log>>
                       ELSE NoCall
               ELSE /\ hpc' = "awaiting"
                    /\ Invoke(p, NoImage)

\* Lines 38-45, 61-77: the reader has loaded the file; the payload is built
\* and generateVeoVideo is called.
FileLoaded ==
    /\ hpc = "reading"
    /\ hpc' = "awaiting"
    /\ Invoke(prompt, [image EXCEPT !.data = SplitComma1(image.data)])
    /\ UNCHANGED <<hasKey, authError, state>>

\* Lines 43, 85-120: the reader fails; the promise of fileToBase64 is
\* rejected with the reader's error event.
FileError ==
    /\ hpc = "reading"
    /\ hpc' = "returned"
    /\ HandleCatch(ReaderError)
    /\ UNCHANGED <<envKey, pc, prompt, image, apiKey, attempts, operation,
                   startTime, now, result, caught, log, overlap>>

\* Lines 71-120: the promise of generateVeoVideo has settled.
GenerateSettles ==
    /\ hpc = "awaiting"
    /\ pc \in {"done", "failed"}
    /\ hpc' = "returned"
    /\ IF result.kind = "resolved"
       THEN /\ state' = Completed(result.v)
            /\ UNCHANGED <<hasKey, authError>>
       ELSE HandleCatch(NewError(result.v))
    /\ UNCHANGED <<envKey, pc, prompt, image, apiKey, attempts, operation,
                   startTime, now, result, caught, log, overlap>>

\* App, lines 32-35: a key was chosen in the selector; the component is
\* mounted afresh.
handleKeySelected ==
    /\ ~hasKey
    /\ hasKey' = TRUE
    /\ authError' = Undefined
    /\ state' = Idle
    /\ UNCHANGED <<envKey, pc, prompt, image, apiKey, attempts, operation,
                   startTime, now, result, caught, log, hpc, overlap>>

\* Lines 401-402, 428-460 with the loop of line 431 testing at its end
\* (do ... while): the body runs once before operation.done is looked at.
CreateJobOkSleepsFirst(lat, op) ==
    /\ UNCHANGED <<hasKey, authError, state, hpc, overlap>>
    /\ pc = "createJob"
    /\ now' = now + lat
    /\ operation' = op
    /\ startTime' = now'
    /\ LET lg == Append(log, Event("createJobOk", 0)) IN
       IF op.def /\ op.done
       THEN /\ pc' = "sleep"
            /\ result' = result
            /\ log' = Append(lg, Event("sleep", PollIntervalMs))
       ELSE Continue(op, lg)
    /\ UNCHANGED <<envKey, prompt, image, apiKey, attempts, caught>>

\* Lines 401-402, 428-460: createJob answers with an operation.
CreateJobOk(lat, op) ==
    /\ UNCHANGED <<hasKey, authError, state, hpc, overlap>>
    /\ pc = "createJob"
    /\ now' = now + lat
    /\ operation' = op
    /\ startTime' = now'
    /\ Continue(op, Append(log, Event("createJobOk", 0)))
    /\ UNCHANGED <<envKey, prompt, image, apiKey, attempts, caught>>

\* Lines 403-425: createJob throws err.
CreateJobFail(lat, err) ==
    /\ UNCHANGED <<hasKey, authError, state, hpc, overlap>>
    /\ pc = "createJob"
    /\ now' = now + lat
    /\ attempts' = attempts + 1
    /\ caught' = err
    /\ LET d == SubmitCatch(err, attempts')
           lg == Append(log, Event("createJobFail", 0)) IN
       IF d.t = "throw" THEN Reject(d.error, lg)
       ELSE /\ pc' = "backoff"
            /\ result' = result
            /\ log' = Append(lg, Event("backoff", d.ms))
    /\ UNCHANGED <<envKey, prompt, image, apiKey, operation, startTime>>

\* Lines 424, 399-401: the backoff timer fires, the loop goes round.
BackoffFires ==
    /\ UNCHANGED <<hasKey, authError, state, hpc, overlap>>
    /\ pc = "backoff"
    /\ now' = now + log[Len(log)].v
    /\ caught' = NoErr
    /\ UNCHANGED <<envKey, prompt, image, apiKey, attempts, operation>>
    /\ IF attempts < maxAttempts
       THEN /\ IssueCreateJob(log)
            /\ startTime' = startTime
       ELSE /\ startTime' = now'
            /\ Continue(operation, log)

\* Lines 432-439 without the onPoll call of line 435.
PollTimerFiresNoTick(jit) ==
    /\ UNCHANGED <<hasKey, authError, state, hpc, overlap>>
    /\ pc = "sleep"
    /\ Count(log, "getJob") < MaxPolls
    /\ now' = now + PollIntervalMs + jit
    /\ pc' = "getJob"
    /\ log' = Append(log, Event("getJob", operation))
    /\ UNCHANGED <<envKey, prompt, image, apiKey, attempts, operation,
                   startTime, result, caught>>

\* Lines 432-439 with the onPoll call of line 435 moved behind line 439's call.
PollTimerFiresCallsFirst(jit) ==
    /\ pc = "sleep"
    /\ Count(log, "tick") < MaxPolls
    /\ now' = now + PollIntervalMs + jit
    /\ pc' = "getJob"
    /\ log' = log \o << Event("getJob", operation),
                        Event("tick", [elapsed |-> Elapsed(now', startTime), at |-> now']) >>
    /\ state' = IF hpc = "awaiting" THEN onPoll(state, Elapsed(now', startTime))
                ELSE state
    /\ UNCHANGED <<envKey, prompt, image, apiKey, attempts, operation,
                   startTime, result, caught, hasKey, authError, hpc, overlap>>

\* Lines 432-439: the poll timer fires, the tick is emitted, getJob goes out.
PollTimerFires(jit) ==
    /\ pc = "sleep"
    /\ Count(log, "tick") < MaxPolls
    /\ now' = now + PollIntervalMs + jit
    /\ pc' = "getJob"
    /\ log' = log \o << Event("tick", [elapsed |-> Elapsed(now', startTime), at |-> now']),
                        Event("getJob", operation) >>
    /\ state' = IF hpc = "awaiting" THEN onPoll(state, Elapsed(now', startTime))
                ELSE state
    /\ UNCHANGED <<envKey, prompt, image, apiKey, attempts, operation,
                   startTime, result, caught, hasKey, authError, hpc, overlap>>

\* Line 439 without the assignment: the loop goes on testing the snapshot
\* that createJob returned.
GetJobOkKeepsSnapshot(lat, op) ==
    /\ UNCHANGED <<hasKey, authError, state, hpc, overlap>>
    /\ pc = "getJob"
    /\ now' = now + lat
    /\ operation' = operation
    /\ Continue(operation, Append(log, Event("getJobOk", 0)))
    /\ UNCHANGED <<envKey, prompt, image, apiKey, attempts, startTime, caught>>

\* Lines 439, 431-460: getJob answers with a fresh snapshot.
GetJobOk(lat, op) ==
    /\ UNCHANGED <<hasKey, authError, state, hpc, overlap>>
    /\ pc = "getJob"
    /\ now' = now + lat
    /\ operation' = op
    /\ Continue(op, Append(log, Event("getJobOk", 0)))
    /\ UNCHANGED <<envKey, prompt, image, apiKey, attempts, startTime, caught>>

\* Line 439 without the try/catch around it: the error reaches line 469.
GetJobFailSurfaces(lat) ==
    /\ UNCHANGED <<hasKey, authError, state, hpc, overlap>>
    /\ pc = "getJob"
    /\ now' = now + lat
    /\ operation' = operation
    /\ Reject(NewError(<<"network down">>), Append(log, Event("getJobFail", 0)))
    /\ UNCHANGED <<envKey, prompt, image, apiKey, attempts, startTime, caught>>

\* Lines 440-443 with a catch that submits the job anew.
GetJobFailResubmits(lat) ==
    /\ UNCHANGED <<hasKey, authError, state, hpc, overlap>>
    /\ pc = "getJob"
    /\ now' = now + lat
    /\ UNCHANGED <<envKey, prompt, image, apiKey, attempts, operation, startTime, caught>>
    /\ IssueCreateJob(Append(log, Event("getJobFail", 0)))

\* Lines 440-443 with a catch that gives up at the second failure in a row.
GetJobFailCapped(lat) ==
    /\ UNCHANGED <<hasKey, authError, state, hpc, overlap>>
    /\ pc = "getJob"
    /\ now' = now + lat
    /\ operation' = operation
    /\ LET lg == Append(log, Event("getJobFail", 0)) IN
       IF Len(log) > 4 /\ log[Len(log) - 3].e = "getJobFail"
       THEN Reject(NewError(<<"network down">>), lg)
       ELSE Continue(operation, lg)
    /\ UNCHANGED <<envKey, prompt, image, apiKey, attempts, startTime, caught>>

\* Lines 440-443, 431-460: getJob throws; the catch only warns.
GetJobFail(lat) ==
    /\ UNCHANGED <<hasKey, authError, state, hpc, overlap>>
    /\ pc = "getJob"
    /\ now' = now + lat
    /\ operation' = operation
    /\ Continue(operation, Append(log, Event("getJobFail", 0)))
    /\ UNCHANGED <<envKey, prompt, image, apiKey, attempts, startTime, caught>>

\* Lines 460-467 without the test of response.ok (line 461).
FetchResponseIgnoresStatus(lat, resp) ==
    /\ UNCHANGED <<hasKey, authError, state, hpc, overlap>>
    /\ pc = "fetch"
    /\ now' = now + lat
    /\ pc' = "done"
    /\ result' = Resolved(<<"blob:">> \o resp.text.s)
    /\ log' = Append(log, Event(IF resp.ok THEN "fetchOk" ELSE "fetchNotOk", resp.status))
    /\ UNCHANGED <<envKey, prompt, image, apiKey, attempts, operation, startTime, caught>>

\* Lines 460-467: fetch answers.
FetchResponse(lat, resp) ==
    /\ UNCHANGED <<hasKey, authError, state, hpc, overlap>>
    /\ pc = "fetch"
    /\ now' = now + lat
    /\ IF resp.ok
       THEN /\ pc' = "done"
            /\ result' = Resolved(<<"blob:">> \o resp.text.s)
            /\ log' = Append(log, Event("fetchOk", resp.status))
       ELSE LET errorText == IF resp.text.def THEN resp.text.s ELSE resp.statusText IN
            Reject(NewError(<<"Failed to download video:", " ">> \o Digits(resp.status)
                            \o <<" ", "-", " ">> \o errorText),
                   Append(log, Event("fetchNotOk", resp.status)))
    /\ UNCHANGED <<envKey, prompt, image, apiKey, attempts, operation, startTime, caught>>

\* Line 460: fetch itself rejects (network failure).
FetchRejects(lat) ==
    /\ UNCHANGED <<hasKey, authError, state, hpc, overlap>>
    /\ pc = "fetch"
    /\ now' = now + lat
    /\ Reject(NewError(FetchTypeError), Append(log, Event("fetchRejects", 0)))
    /\ UNCHANGED <<envKey, prompt, image, apiKey, attempts, operation, startTime, caught>>

Next ==
    \/ \E k \in Keys : ChangeKey(k)
    \/ \E p \in Prompts, img \in Images : Call(p, img)
    \/ \E p \in Prompts, file \in Files : handleGenerate(p, file)
    \/ FileLoaded
    \/ FileError
    \/ GenerateSettles
    \/ handleKeySelected
    \/ \E lat \in CreateLatency, op \in CreatedOperations : CreateJobOk(lat, op)
    \/ \E lat \in CreateLatency, err \in ThrownValues : CreateJobFail(lat, err)
    \/ BackoffFires
    \/ \E jit \in Jitters : PollTimerFires(jit)
    \/ \E lat \in Latencies, op \in RefreshedOperations : GetJobOk(lat, op)
    \/ \E lat \in Latencies : GetJobFail(lat)
    \/ \E lat \in Latencies, resp \in FetchResponses : FetchResponse(lat, resp)
    \/ \E lat \in Latencies : FetchRejects(lat)

Spec == Init /\ [][Next]_vars

----------------------------------------------------------------------------
(* The call alone, with a remote job that completes: the poll numbered      *)
(* MaxPolls neither fails nor returns a pending job.  The timers fire and    *)
(* every request is answered (setTimeout and the promises of the SDK and of  *)
(* fetch settle), which is weak fairness of the steps that follow an await.  *)

LastPoll == Count(log, "tick") = MaxPolls

GetJobAnswers ==
    \/ \E lat \in Latencies, op \in RefreshedOperations :
           (LastPoll => op.done) /\ GetJobOk(lat, op)
    \/ \E lat \in Latencies : ~LastPoll /\ GetJobFail(lat)

CreateJobAnswers ==
    \/ \E lat \in CreateLatency, op \in CreatedOperations : CreateJobOk(lat, op)
    \/ \E lat \in CreateLatency, err \in ThrownValues : CreateJobFail(lat, err)

FetchAnswers ==
    \/ \E lat \in Latencies, resp \in FetchResponses : FetchResponse(lat, resp)
    \/ \E lat \in Latencies : FetchRejects(lat)

PollTimer == \E jit \in Jitters : PollTimerFires(jit)

LiveNext ==
    \/ \E p \in Prompts, img \in Images : Call(p, img)
    \/ CreateJobAnswers
    \/ BackoffFires
    \/ PollTimer
    \/ GetJobAnswers
    \/ FetchAnswers

Fairness ==
    /\ WF_vars(CreateJobAnswers)
    /\ WF_vars(BackoffFires)
    /\ WF_vars(PollTimer)
    /\ WF_vars(GetJobAnswers)
    /\ WF_vars(FetchAnswers)

LiveSpec == Init /\ [][LiveNext]_vars /\ Fairness

----------------------------------------------------------------------------
(* Properties *)

Started == pc # "idle"
KeyRead == log[1].v
NetworkCalls == Count(log, "createJob") + Count(log, "getJob") + Count(log, "fetch")
RejectedWith(msg) == pc = "failed" /\ result = [kind |-> "rejected", v |-> msg]
NeitherPromptNorImage == ~Truthy(prompt) /\ ~image.def

\* C1 as stated: a call with neither a non-empty prompt nor an image is
\* rejected with the BadRequest message and makes no network call, whatever
\* the credential is.
C1_AsStated ==
    (Started /\ NeitherPromptNorImage)
        => (RejectedWith(MsgNoInput) /\ NetworkCalls = 0)

\* C1 amended: a call with neither a non-empty prompt nor an image makes no
\* network call and is rejected at once: with the BadRequest message when the
\* credential read at the start is present, with the missing-credential
\* message when it is absent or empty.
C1_NoInputRejected ==
    (Started /\ NeitherPromptNorImage)
        => /\ NetworkCalls = 0
           /\ log = <<Event("readKey", KeyRead)>>
           /\ IF Falsy(KeyRead) THEN RejectedWith(MsgKeyMissing)
              ELSE RejectedWith(MsgNoInput)

C1_Witness ==
    /\ Started
    /\ NeitherPromptNorImage
    /\ ~Falsy(KeyRead)
    /\ RejectedWith(MsgNoInput)

\* C2: when the credential read at the start of the call is absent or empty,
\* the call is rejected with the missing-credential message and has made no
\* createJob attempt, no backoff wait, no getJob call, no tick and no fetch.
C2_MissingKeyFailsAtOnce ==
    (Started /\ Falsy(KeyRead))
        => /\ RejectedWith(MsgKeyMissing)
           /\ Count(log, "createJob") = 0
           /\ Count(log, "backoff") = 0
           /\ Count(log, "getJob") = 0
           /\ Count(log, "tick") = 0
           /\ Count(log, "fetch") = 0

C2_Witness ==
    /\ Started
    /\ KeyRead = Str(<<>>)
    /\ Truthy(prompt)
    /\ RejectedWith(MsgKeyMissing)

\* The text of a thrown value in which a marker may sit: its message and,
\* where it carries one, its numeric code or status.
ThrownText(e) ==
    IF e.code # 0 THEN Digits(e.code) \o <<" ">> \o e.message ELSE e.message


\* The message the stated precedence gives for a thrown value.
StatedMessage(e) ==
    IF e.shape \in {"Error", "ApiError", "String"} THEN e.message
    ELSE IF e.shape = "Nested" /\ Truthy(e.message)
    THEN IF e.code # 0 THEN <<"[">> \o Digits(e.code) \o <<"]", " ">> \o e.message
         ELSE e.message
    ELSE IF e.shape \in {"Object", "NestedTop"} /\ Truthy(e.message) THEN e.message
    ELSE IF JSONstringify(e).ok THEN JSONstringify(e).s
    ELSE MsgUnknownOccurred

InCatch == caught # NoErr

\* C3 as stated: after a createJob failure whose message contains "404" or
\* "NOT_FOUND", whatever the shape of the thrown value, no backoff wait and no
\* further createJob attempt follows (the call has failed), and when it is
\* the first failure exactly one attempt was made.
C3_AsStated ==
    (InCatch /\ (includes(caught.message, S404) \/ includes(caught.message, SNotFound)))
        => /\ pc = "failed"
           /\ log[Len(log)].e = "createJobFail"
           /\ attempts = 1 => Count(log, "createJob") = 1

\* C4 as stated: after a createJob failure whose message contains "400" or
\* "INVALID_ARGUMENT", whatever the shape of the thrown value, no backoff wait
\* and no further createJob attempt follows (the call has failed).
C4_AsStated ==
    (InCatch /\ (includes(caught.message, S400) \/ includes(caught.message, SInvalidArgument)))
        => /\ pc = "failed"
           /\ log[Len(log)].e = "createJobFail"

HasMarker(text) ==
    \/ includes(text, S404) \/ includes(text, SNotFound)
    \/ includes(text, S400) \/ includes(text, SInvalidArgument)

\* A thrown value that carries none of the four markers (and that can be
\* serialized, so that its text can be inspected at all).
MarkerFree(e) == JSONstringify(e).ok /\ ~HasMarker(ThrownText(e))

\* C5: createJob is attempted at most 3 times in a run; and when the third
\* attempt too fails with an error that carries no marker, the call is
\* rejected with the Transient message after exactly 3 attempts and exactly 2
\* backoff waits, without a poll sleep, tick, getJob call or fetch.
C5_AtMostThreeAttempts ==
    /\ Count(log, "createJob") <= 3
    /\ (Count(log, "createJobFail") = 3 /\ InCatch /\ MarkerFree(caught))
        => /\ RejectedWith(MsgConnect)
           /\ Count(log, "createJob") = 3
           /\ Count(log, "backoff") = 2
           /\ Count(log, "sleep") = 0
           /\ Count(log, "tick") = 0
           /\ Count(log, "getJob") = 0
           /\ Count(log, "fetch") = 0

C5_Witness ==
    /\ RejectedWith(MsgConnect)
    /\ Count(log, "createJobFail") = 3
    /\ MarkerFree(caught)

\* C6: every backoff wait directly follows a failed createJob attempt and,
\* after the n-th failure, lasts 1000 ms x 2^n: 2000 ms after the first
\* failure, 4000 ms after the second; the third failure is followed by no
\* wait, so a wait of 8000 ms never occurs.
C6_BackoffSequence ==
    /\ \A i \in Positions(log, "backoff") :
          LET n == Cardinality({ j \in Positions(log, "createJobFail") : j < i }) IN
              /\ log[i - 1].e = "createJobFail"
              /\ log[i].v = 1000 * 2^n
              /\ n = 1 => log[i].v = 2000
              /\ n = 2 => log[i].v = 4000
              /\ n \in {1, 2}
    /\ Count(log, "createJobFail") >= 3
        => /\ log[Len(log)].e = "createJobFail"
           /\ Count(log, "backoff") = 2

C6_Witness ==
    /\ Count(log, "createJobFail") = 3
    /\ Count(log, "backoff") = 2
    /\ pc = "failed"

\* C7: a getJob call that throws neither ends the poll loop nor rejects the
\* call: right after it the 5000 ms timer is set again, the call is still
\* pending and holds the JobHandle it passed to the failed getJob; and the
\* iteration that follows emits a tick and calls getJob with that handle.
C7_PollFailureSwallowed ==
    \A i \in Positions(log, "getJobFail") :
        /\ log[i - 1].e = "getJob"
        /\ Len(log) > i
        /\ log[i + 1].e = "sleep"
        /\ log[i + 1].v = 5000
        /\ Len(log) = i + 1
            => /\ pc = "sleep"
               /\ result = NoResult
               /\ operation = log[i - 1].v
        /\ Len(log) > i + 1
            => /\ log[i + 2].e = "tick"
               /\ log[i + 3].e = "getJob"
               /\ log[i + 3].v = log[i - 1].v

C7_Witness ==
    \E i \in Positions(log, "getJobFail") :
        /\ Len(log) > i + 1
        /\ log[i + 3].e = "getJob"
        /\ log[i + 3].v.snap = 2

\* C8: the elapsedSeconds values given to the progress sink in one call are
\* all >= 0 and never decrease, and any two ticks are at least 5 seconds
\* apart on the clock.
C8_TicksMonotonic ==
    /\ \A i \in Positions(log, "tick") : log[i].v.elapsed >= 0
    /\ \A i, j \in Positions(log, "tick") :
          i < j => /\ log[i].v.elapsed <= log[j].v.elapsed
                   /\ log[j].v.at - log[i].v.at >= 5000

C8_Witness ==
    \E i, j \in Positions(log, "tick") :
        /\ i < j
        /\ log[i].v.elapsed = 5
        /\ log[j].v.elapsed = 16

\* C9: when the job is done with no job-level error and no asset URI, the
\* call is rejected with the no-asset-reference message and fetch was never
\* invoked.
C9_NoUriNoFetch ==
    (operation.def /\ operation.done /\ ~operation.error.present /\ Falsy(operation.uri))
        => /\ RejectedWith(MsgNoUri)
           /\ Count(log, "fetch") = 0
           /\ Count(log, "fetchOk") = 0

C9_Witness ==
    /\ operation.done
    /\ ~operation.error.present
    /\ Falsy(operation.uri)
    /\ Count(log, "tick") = 2
    /\ RejectedWith(MsgNoUri)

\* C10: a started call has read the credential exactly once, as its first
\* step; and every fetch it issues goes to the job's asset URI followed by
\* "&key=" and that credential, whatever the credential provider holds by
\* then.
C10_KeyReadOnce ==
    /\ Count(log, "readKey") = (IF Started THEN 1 ELSE 0)
    /\ Started => (log[1].e = "readKey" /\ apiKey = KeyRead)
    /\ \A i \in Positions(log, "fetch") :
          log[i].v = operation.uri.s \o <<"&key=">> \o KeyRead.s

C10_Witness ==
    /\ pc = "fetch"
    /\ Count(log, "fetch") = 1
    /\ Count(log, "tick") >= 1
    /\ Count(log, "backoff") >= 1
    /\ envKey # KeyRead
    /\ ~Falsy(envKey)

Names(lg) == [i \in 1..Len(lg) |-> lg[i].e]
NotTick(ev) == ev.e # "tick"
Ticks == [k \in 1..Count(log, "tick") |->
            LET i == CHOOSE i \in Positions(log, "tick") :
                        Cardinality({ j \in Positions(log, "tick") : j <= i }) = k
            IN log[i].v.elapsed]

\* The run of the end-to-end scenario: createJob succeeds at the first
\* attempt with a pending job, getJob answers Pending, Pending, then Done with
\* an asset URI, and the fetch succeeds.
EndToEndRun ==
    /\ Truthy(prompt)
    /\ ~image.def
    /\ pc = "done"
    /\ Names(SelectSeq(log, NotTick)) =
           << "readKey", "createJob", "createJobOk",
              "sleep", "getJob", "getJobOk",
              "sleep", "getJob", "getJobOk",
              "sleep", "getJob", "getJobOk",
              "fetch", "fetchOk" >>

\* C11 as stated: in the end-to-end scenario the result is the fetched bytes
\* and the progress sink has received exactly two ticks.
C11_AsStated ==
    EndToEndRun => (result = Resolved(<<"blob:", "mp4">>) /\ Count(log, "tick") = 2)

\* C11 amended: in the end-to-end scenario the result is the fetched bytes
\* and the progress sink has received exactly three ticks, one before each of
\* the three getJob calls, with elapsedSeconds about 5, 10 and 15.
C11_EndToEndThreeTicks ==
    EndToEndRun
        => /\ result = Resolved(<<"blob:", "mp4">>)
           /\ Count(log, "tick") = 3
           /\ \A k \in 1..3 : Ticks[k] \in {5 * k, 5 * k + 1}

C11_Witness ==
    /\ EndToEndRun
    /\ prompt = <<"a cat">>
    /\ Ticks = <<5, 10, 15>>

\* C12 as stated: when a value thrown by createJob ends the call (at the
\* first or second attempt, so that it is not replaced by the exhaustion
\* error), the message of the rejection is the one the stated precedence
\* gives for that value: its own message for an Error instance or a string,
\* "[code] message" or "message" for {error: {code, message}}, the top-level
\* message for an object that has one (also beside an error field without a
\* message), else the serialization, else "Unknown error occurred".
C12_AsStated ==
    (pc = "failed" /\ InCatch /\ attempts < 3)
        => result = [kind |-> "rejected", v |-> StatedMessage(caught)]

\* The same, for the thrown values that neither hold an error field without
\* a message nor fail to serialize.
C12_OtherShapes ==
    (pc = "failed" /\ InCatch /\ attempts < 3
        /\ caught.shape \notin {"NestedTop", "Circular"})
        => result = [kind |-> "rejected", v |-> StatedMessage(caught)]

----------------------------------------------------------------------------
(* The component's reaction to the outcome *)

Returned == hpc = "returned" /\ pc = "failed"
Marked404(e) == includes(ThrownText(e), S404) \/ includes(ThrownText(e), SNotFound)
Marked400(e) == includes(ThrownText(e), S400) \/ includes(ThrownText(e), SInvalidArgument)
SubmissionFailedOn(e) == InCatch /\ caught = e /\ log[Len(log)].e = "createJobFail"

\* The AuthInvalid outcomes: the credential is missing, or createJob failed
\* with a value marked 404 / NOT_FOUND.
AuthInvalid ==
    \/ KeyMissing(KeyRead)
    \/ SubmissionFailedOn(caught) /\ Marked404(caught)

\* The other outcomes: BadRequest, Transient, Unknown.
BadRequest ==
    \/ RejectedWith(MsgNoInput)
    \/ SubmissionFailedOn(caught) /\ Marked400(caught) /\ ~Marked404(caught)
Transient == RejectedWith(MsgConnect)
Unknown == pc = "failed" /\ Count(log, "createJobOk") = 1

\* The credential state was reset: the component never showed FAILED, and
\* the selector is shown with the reason until a key is chosen.
CredentialReset ==
    /\ state.status # "FAILED"
    /\ ~hasKey => authError = Str(ResetReason)
    /\ hasKey => state = Idle

\* C13 as stated: whenever handleGenerate has returned from an AuthInvalid
\* outcome (missing credential, or createJob failure marked 404/NOT_FOUND),
\* the credential state was reset and the status is not FAILED.
C13_AsStated ==
    (Returned /\ AuthInvalid) => CredentialReset

\* C14 as stated: whenever handleGenerate has returned from a BadRequest,
\* Transient or Unknown outcome, the status is FAILED with the normalized
\* message, and the credential state is untouched.
C14_AsStated ==
    (Returned /\ (BadRequest \/ Transient \/ Unknown))
        => /\ state = Failed(result.v)
           /\ hasKey
           /\ authError = Undefined

----------------------------------------------------------------------------
(* Phases of a run *)

PollingEvents == {"sleep", "tick", "getJob", "getJobOk", "getJobFail",
                  "fetch", "fetchOk", "fetchNotOk", "fetchRejects"}
PositionsIn(lg, es) == { i \in 1..Len(lg) : lg[i].e \in es }

\* C15: a getJob call, tick or fetch only happens after a createJob attempt
\* has succeeded; createJob is never called after the first success or after
\* polling has started; and a call that fails without a successful createJob
\* has made no getJob call, emitted no tick and fetched nothing, and failed
\* right at the last createJob failure.
C15_PhaseOrder ==
    /\ \A i \in PositionsIn(log, PollingEvents) :
           \E j \in 1..(i - 1) : log[j].e = "createJobOk"
    /\ \A i \in Positions(log, "createJob") :
           \A j \in 1..(i - 1) : log[j].e \notin PollingEvents \cup {"createJobOk"}
    /\ Count(log, "createJobOk") <= 1
    /\ (pc = "failed" /\ Count(log, "createJobOk") = 0 /\ Count(log, "createJob") > 0)
           => /\ log[Len(log)].e = "createJobFail"
              /\ Count(log, "getJob") = 0
              /\ Count(log, "tick") = 0
              /\ Count(log, "fetch") = 0
    /\ pc \in {"done", "failed"} => result # NoResult
    /\ pc = "done" => Count(log, "createJobOk") = 1

\* A run through all three phases: one failed attempt, a second attempt that
\* succeeds, a failed and a successful poll, the download.
C15_Witness ==
    /\ pc = "done"
    /\ Count(log, "createJobFail") = 1
    /\ Count(log, "getJobFail") = 1
    /\ Count(log, "getJobOk") = 1
    /\ Count(log, "fetchOk") = 1

\* C16: at every point of a run the number of ticks equals the number of
\* getJob calls started; a tick comes right after a sleep of 5000 ms and
\* right before a getJob call, a sleep is followed by nothing but a tick, a
\* getJob call is preceded by nothing but a tick; and no tick precedes the
\* success of createJob.
C16_TickPerPoll ==
    /\ Count(log, "tick") = Count(log, "getJob")
    /\ Count(log, "tick") = Count(log, "getJobOk") + Count(log, "getJobFail")
                              + (IF pc = "getJob" THEN 1 ELSE 0)
    /\ Count(log, "sleep") = Count(log, "tick") + (IF pc = "sleep" THEN 1 ELSE 0)
    /\ \A i \in Positions(log, "tick") :
           /\ i > 1
           /\ log[i - 1].e = "sleep"
           /\ log[i - 1].v = 5000
           /\ i < Len(log)
           /\ log[i + 1].e = "getJob"
           /\ \E j \in 1..(i - 1) : log[j].e = "createJobOk"
    /\ \A i \in Positions(log, "getJob") : log[i - 1].e = "tick"
    /\ \A i \in Positions(log, "sleep") : i < Len(log) => log[i + 1].e = "tick"

\* The second poll is in flight after a failed first one, behind a retried
\* submission.
C16_Witness ==
    /\ pc = "getJob"
    /\ Count(log, "createJobFail") = 1
    /\ Count(log, "getJobFail") = 1
    /\ Count(log, "tick") = 2

----------------------------------------------------------------------------
(* Resolution of the completed job *)

JobLevelError == operation.def /\ operation.done /\ operation.error.present

\* C17: when the completed job reports a job-level error, the call is
\* rejected with the job's own error message, or with the fixed fallback
\* message when the job's error has no message, and no fetch was made, also
\* when the job carries an asset URI.
C17_JobErrorNoFetch ==
    JobLevelError
        => /\ RejectedWith(IF operation.error.message.def
                           THEN operation.error.message.s
                           ELSE <<"Unknown error during video generation operation">>)
           /\ Count(log, "fetch") = 0

\* A poll returned the job completed with an error message and a URI.
C17_Witness ==
    /\ JobLevelError
    /\ operation.uri.def
    /\ operation.error.message.def
    /\ log[Len(log)].e = "getJobOk"
    /\ pc = "failed"

\* The message of a failed download: status, then the body, or the status
\* text when the body cannot be read.
DownloadFailed(resp) ==
    <<"Failed to download video:", " ">> \o Digits(resp.status) \o <<" ", "-", " ">>
        \o (IF resp.text.def THEN resp.text.s ELSE resp.statusText)

\* C18: the call resolves with an asset only if a createJob attempt
\* succeeded, the job is done without a job-level error and with an asset
\* URI, and the fetch of that URI (with the key appended) answered with a
\* success status; and a fetch that answers with another status rejects the
\* call with the download-failure message made of the status and the body
\* or status text, and never yields an asset.
C18_AssetOnlyAfterSuccess ==
    /\ result.kind = "resolved" <=> pc = "done"
    /\ pc = "done"
           => /\ Count(log, "createJobOk") = 1
              /\ operation.def /\ operation.done
              /\ ~operation.error.present
              /\ operation.uri.def
              /\ Count(log, "fetch") = 1
              /\ \A i \in Positions(log, "fetch") :
                     log[i].v = operation.uri.s \o <<"&key=">> \o apiKey.s
              /\ log[Len(log)].e = "fetchOk"
              /\ log[Len(log)].v \in 200..299
    /\ \A i \in Positions(log, "fetchNotOk") :
           /\ i = Len(log)
           /\ pc = "failed"
           /\ \E resp \in FetchResponses :
                  /\ ~resp.ok
                  /\ resp.status = log[i].v
                  /\ result = [kind |-> "rejected", v |-> DownloadFailed(resp)]

\* After a poll, the download is answered with 500 and a body that cannot
\* be read.
C18_Witness ==
    /\ pc = "failed"
    /\ Count(log, "getJobOk") = 1
    /\ log[Len(log)] = Event("fetchNotOk", 500)
    /\ result.v = <<"Failed to download video:", " ", "5", "0", "0", " ", "-", " ",
                    "Internal Server Error">>

----------------------------------------------------------------------------
(* Termination *)

SubmissionSucceeded == Count(log, "createJobOk") = 1
Terminated == pc \in {"done", "failed"}

\* C19: once createJob has succeeded, given that getJob eventually returns a
\* completed job and that the timers fire and the requests are answered, the
\* call eventually ends, resolved or rejected; and the poll loop is left on
\* the first refreshed snapshot that reports completion: no sleep, tick or
\* getJob call follows it.
C19_EventuallyTerminates ==
    /\ SubmissionSucceeded ~> Terminated
    /\ [](operation.def /\ operation.done => pc \in {"fetch", "done", "failed"})
    /\ [][operation.def /\ operation.done =>
             Count(log', "getJob") = Count(log, "getJob")]_vars

\* The job completes on the last poll, after pending snapshots and a failed
\* getJob call, and the call has ended.
C19_Witness ==
    /\ Terminated
    /\ operation.done
    /\ Count(log, "getJobFail") >= 1
    /\ Count(log, "getJobOk") >= 2
    /\ Count(log, "tick") = MaxPolls

\* A pending job was submitted and no poll has returned it completed: every
\* getJob call so far has failed or returned a pending snapshot.
StillPending == SubmissionSucceeded /\ ~operation.done

\* C20: as long as every getJob call fails or returns a pending job, however
\* many there were, the call has neither resolved nor rejected: it is
\* sleeping or polling, each such getJob answer sets the next sleep of 5000
\* ms, and the end of a sleep emits the next tick.
C20_NoCapOnPollFailures ==
    /\ [](StillPending => /\ pc \in {"sleep", "getJob"}
                          /\ result = NoResult
                          /\ Count(log, "tick") = Count(log, "getJobOk")
                                                    + Count(log, "getJobFail")
                                                    + (IF pc = "getJob" THEN 1 ELSE 0))
    /\ [][(StillPending /\ pc = "getJob" /\ log' # log /\ ~operation'.done)
              => (pc' = "sleep" /\ log'[Len(log')] = Event("sleep", PollIntervalMs))]_vars
    /\ [][(StillPending /\ pc = "sleep" /\ pc' # "sleep")
              => (pc' = "getJob" /\ Count(log', "tick") = Count(log, "tick") + 1)]_vars

\* Every poll the bound allows has failed, and the call is asleep again.
C20_Witness ==
    /\ StillPending
    /\ Count(log, "getJobFail") = MaxPolls
    /\ Count(log, "getJobOk") = 0
    /\ pc = "sleep"
    /\ result = NoResult

----------------------------------------------------------------------------
(* The state record of the component *)

\* C21: in every reachable state the record is consistent: COMPLETED has a
\* videoUrl and no error, FAILED has an error and no videoUrl, IDLE,
\* GENERATING and POLLING have neither, and elapsedSeconds is other than 0
\* only in POLLING.
C21_StateConsistent ==
    /\ state.status \in {"IDLE", "GENERATING", "POLLING", "COMPLETED", "FAILED"}
    /\ state.status = "COMPLETED" => (state.videoUrl.def /\ ~state.error.def)
    /\ state.status = "FAILED" => (state.error.def /\ ~state.videoUrl.def)
    /\ state.status \in {"IDLE", "GENERATING", "POLLING"}
           => (~state.videoUrl.def /\ ~state.error.def)
    /\ state.elapsedSeconds # 0 => state.status = "POLLING"

\* The component has shown progress (10 s and more) and then the failure of
\* the download.
C21_Witness ==
    /\ state.status = "FAILED"
    /\ state.error.def
    /\ Count(log, "tick") >= 2
    /\ log[Len(log)].e = "fetchNotOk"
    /\ hpc = "returned"

----------------------------------------------------------------------------
(* One job at a time *)

Click == \E p \in Prompts, file \in Files : handleGenerate(p, file)
Busy == state.status \in {"GENERATING", "POLLING"}

\* C22: no call of generateVeoVideo is ever started while an earlier one
\* has not settled; while the component is mounted with status GENERATING
\* or POLLING no generate request is possible, and whenever handleGenerate
\* is reading the file or awaiting the call the status is one of the two; a
\* request that goes on to the call has a prompt that is not blank or an
\* image; and a request that returns at once changes neither the state
\* record nor anything of the call.
C22_OneJobAtATime ==
    /\ [](~overlap)
    /\ []((hasKey /\ Busy) => ~ENABLED Click)
    /\ [](hpc \in {"reading", "awaiting"} => Busy)
    /\ []((InFlight /\ hpc # "none") => (hpc = "awaiting" /\ Busy))
    /\ [][(hpc' \in {"reading", "awaiting"} /\ hpc' # hpc)
              => (trim(prompt') # <<>> \/ image'.def)]_vars
    /\ [][(hpc = "none" /\ hpc' = "returned")
              => UNCHANGED <<state, pc, log, result, prompt, image, apiKey,
                             attempts, operation, hasKey, authError>>]_vars

\* The call of a request is polling, the status is POLLING, and no further
\* request is possible.
C22_Witness ==
    /\ hasKey
    /\ hpc = "awaiting"
    /\ pc = "getJob"
    /\ state.status = "POLLING"
    /\ ~ENABLED Click

----------------------------------------------------------------------------
(* A job that is done when createJob returns *)

\* createJob returned the job completed: the operation is done and no
\* getJob call has returned it.
CreatedDone == operation.def /\ operation.done /\ Count(log, "getJobOk") = 0

\* C23: when createJob returns a job that is already done, there is no
\* sleep, no tick and no getJob call: the step that receives the job goes
\* on to the resolution (the fetch, or the rejection), and the status of the
\* component is never POLLING: it is GENERATING while the call is awaited
\* and then COMPLETED or FAILED, or the credential is reset.
C23_DoneAtOnceSkipsPolling ==
    /\ [](CreatedDone
            => /\ Count(log, "sleep") = 0
               /\ Count(log, "tick") = 0
               /\ Count(log, "getJob") = 0
               /\ pc \in {"fetch", "done", "failed"}
               /\ state.status # "POLLING"
               /\ state.elapsedSeconds = 0
               /\ hpc = "awaiting" => state = Generating
               /\ hpc = "returned"
                      => \/ state.status \in {"COMPLETED", "FAILED"}
                         \/ ~hasKey /\ state = Generating /\ authError = Str(ResetReason)
                         \/ hasKey /\ state = Idle /\ authError = Undefined)
    /\ [][(pc = "createJob" /\ operation'.def /\ operation'.done)
              => /\ pc' \in {"fetch", "failed"}
                 /\ pc' = "fetch" <=> (~operation'.error.present /\ operation'.uri.def)]_vars

\* The component shows COMPLETED after createJob, the fetch and nothing
\* else.
C23_Witness ==
    /\ CreatedDone
    /\ hpc = "returned"
    /\ state.status = "COMPLETED"
    /\ Names(log) = <<"readKey", "createJob", "createJobOk", "fetch", "fetchOk">>

====
